---------------------------- MODULE Spec2Model ----------------------------
(***************************************************************************)
(* A model of fetch_music_data.py (MusicDataFetcher and main): the         *)
(* cross-catalog resolver (search_itunes_for_album, get_album_details),    *)
(* the filter operations (filter_by_genre_and_recency, get_genre_releases, *)
(* get_releases_from_artist_database) and the coordinator main.            *)
(*                                                                         *)
(* Text is a sequence of one-character strings ("chunks" for the fixed     *)
(* parts of a URL); the empty sequence is the empty string, which Python   *)
(* treats as false exactly as it treats None.                              *)
(* A date string is the tuple of its zero-padded numeric fields:           *)
(* <<>> is '', <<y>> is 'YYYY', <<y, m>> is 'YYYY-MM', <<y, m, d>> is      *)
(* 'YYYY-MM-DD' and a fourth field is the time part of a timestamp.        *)
(***************************************************************************)
EXTENDS Integers, Sequences, FiniteSets, TLC

VARIABLES
    \* ---- resolver: get_album_details / search_itunes_for_album
    album,              \* the release handed to get_album_details
    pc,                 \* where the resolver is
    attempt_num,        \* number of the query last issued (0: none yet)
    issued,             \* the query strings sent to the secondary catalog
    pending,            \* results of the current response not yet processed
    best_match,         \* best_match of search_itunes_for_album, or NoMatch
    best_match_score,   \* best_match_score of search_itunes_for_album
    last,               \* the result processed last and what was done with it
    exit,               \* how search_itunes_for_album returned
    found_url,          \* what search_itunes_for_album returned
    details,            \* the record get_album_details returned
    \* ---- filter operations
    fpc,                \* which filter operation has run ("idle": none yet)
    now,                \* datetime.now(): [date |-> <<y, m, d>>, tod |-> 0 | 1]
    albums,             \* the albums the catalog handed to the operation
    more_albums,        \* the albums of the genre searches (search_results)
    params,             \* the arguments of the operation
    dedup_in,           \* the list the deduplication step iterated
    unique,             \* the list the deduplication step produced
    passed,             \* the survivors, as handed to the final sort
    returned,           \* the list the operation returned
    \* ---- main
    mpc,                \* where main is
    creds,              \* which of client_id and client_secret are set
    spotify_token,      \* self.spotify_token, and token of main (<<>>: None, '')
    calls,              \* the kinds of external calls issued so far
    data,               \* hiphop_data, rock_data, news_data, then data
    written,            \* what main wrote to music_data.json (<<>>: nothing)
    \* ---- normalize_string and strings_match, called on their own
    tpc,                \* which of the two has been called
    text1, text2,       \* the strings they are handed
    threshold,          \* threshold of strings_match, [num |-> n, den |-> d]
    norm,               \* normalize_string(text1)
    renorm,             \* normalize_string(norm)
    match12,            \* strings_match(text1, text2, threshold)
    match21,            \* strings_match(text2, text1, threshold)
    decided             \* the step at which strings_match(text1, text2) returned

rvars == <<album, pc, attempt_num, issued, pending, best_match,
           best_match_score, last, exit, found_url, details>>
fvars == <<fpc, now, albums, more_albums, params, dedup_in, unique, passed,
           returned>>
mvars == <<mpc, creds, spotify_token, calls, data, written>>
tvars == <<tpc, text1, text2, threshold, norm, renorm, match12, match21,
           decided>>
vars == <<rvars, fvars, mvars, tvars>>

\* neither normalize_string nor strings_match is called on its own
IdleText ==
    /\ tpc = "idle" /\ text1 = <<>> /\ text2 = <<>> /\ threshold = <<>>
    /\ norm = <<>> /\ renorm = <<>> /\ match12 = FALSE /\ match21 = FALSE
    /\ decided = "none"

-----------------------------------------------------------------------------
(* Characters and text *)

UpperChars == <<"A","B","C","D","E","F","G","H","I","J","K","L","M",
                "N","O","P","Q","R","S","T","U","V","W","X","Y","Z">>
LowerChars == <<"a","b","c","d","e","f","g","h","i","j","k","l","m",
                "n","o","p","q","r","s","t","u","v","w","x","y","z">>
DigitChars == {"0","1","2","3","4","5","6","7","8","9"}
SpaceChars == {" ", "\t", "\n", "\r"}

Range(f) == {f[i] : i \in DOMAIN f}

\* str.lower() on one character
LowerChar(c) ==
    IF \E i \in DOMAIN UpperChars : UpperChars[i] = c
    THEN LowerChars[CHOOSE i \in DOMAIN UpperChars : UpperChars[i] = c]
    ELSE c

\* str.lower()
Lower(s) == [i \in 1..Len(s) |-> LowerChar(s[i])]

\* \w of a str pattern: letters, digits and the underscore
IsWordChar(c) == c \in Range(UpperChars) \cup Range(LowerChars) \cup DigitChars \cup {"_"}

\* \s
IsSpaceChar(c) == c \in SpaceChars

\* s.replace('-', ' ')
ReplaceHyphens(s) == [i \in 1..Len(s) |-> IF s[i] = "-" THEN " " ELSE s[i]]

\* re.sub(r'[^\w\s]', '', s)
RemoveSpecial(s) == SelectSeq(s, LAMBDA c : IsWordChar(c) \/ IsSpaceChar(c))

\* re.sub(r'\s+', ' ', s): every maximal run of whitespace becomes one space
CollapseSpaces(s) ==
    LET F[i \in 0..Len(s)] ==
            IF i = 0 THEN <<>>
            ELSE IF IsSpaceChar(s[i])
                 THEN IF i > 1 /\ IsSpaceChar(s[i-1]) THEN F[i-1]
                      ELSE Append(F[i-1], " ")
                 ELSE Append(F[i-1], s[i])
    IN  F[Len(s)]

\* str.strip()
Strip(s) ==
    LET keep == {i \in 1..Len(s) : ~IsSpaceChar(s[i])}
    IN  IF keep = {} THEN <<>>
        ELSE SubSeq(s, CHOOSE i \in keep : \A j \in keep : i <= j,
                       CHOOSE i \in keep : \A j \in keep : i >= j)

\* normalize_string collapsing the spaces before it replaces the hyphens
NormalizeSpacesFirst(s) ==
    Strip(RemoveSpecial(ReplaceHyphens(CollapseSpaces(Lower(s)))))

\* MusicDataFetcher.normalize_string
normalize_string(s) ==
    Strip(CollapseSpaces(RemoveSpecial(ReplaceHyphens(Lower(s)))))

\* a in b, for str
IsSubstring(a, b) ==
    \E i \in 0..(Len(b) - Len(a)) : SubSeq(b, i + 1, i + Len(a)) = a

\* set(s.split()): the maximal runs of non-whitespace
WordSet(s) ==
    {SubSeq(s, i, j) : <<i, j>> \in
        {p \in (1..Len(s)) \X (1..Len(s)) :
            /\ p[1] <= p[2]
            /\ \A k \in p[1]..p[2] : ~IsSpaceChar(s[k])
            /\ (p[1] = 1 \/ IsSpaceChar(s[p[1] - 1]))
            /\ (p[2] = Len(s) \/ IsSpaceChar(s[p[2] + 1]))}}

Min(a, b) == IF a <= b THEN a ELSE b

\* The default of strings_match's threshold, 0.7, as the fraction 7/10
ThresholdNum == 7
ThresholdDen == 10

\* strings_match with the word sets looked at before the containment
StringsMatchWordsFirst(str1, str2, num, den) ==
    LET norm1 == normalize_string(str1)
        norm2 == normalize_string(str2)
        words1 == WordSet(norm1)
        words2 == WordSet(norm2)
        overlap == Cardinality(words1 \cap words2)
        total == Min(Cardinality(words1), Cardinality(words2))
    IN  IF norm1 = norm2 THEN TRUE
        ELSE IF words1 = {} \/ words2 = {} THEN FALSE
        ELSE IF IsSubstring(norm1, norm2) \/ IsSubstring(norm2, norm1) THEN TRUE
        ELSE IF total > 0 THEN overlap * den >= num * total
        ELSE FALSE

\* strings_match testing the containment one way only
StringsMatchOneWay(str1, str2, num, den) ==
    LET norm1 == normalize_string(str1)
        norm2 == normalize_string(str2)
        words1 == WordSet(norm1)
        words2 == WordSet(norm2)
        overlap == Cardinality(words1 \cap words2)
        total == Min(Cardinality(words1), Cardinality(words2))
    IN  IF norm1 = norm2 THEN TRUE
        ELSE IF IsSubstring(norm1, norm2) THEN TRUE
        ELSE IF words1 = {} \/ words2 = {} THEN FALSE
        ELSE IF total > 0 THEN overlap * den >= num * total
        ELSE FALSE

\* strings_match asking for more than the threshold
StringsMatchAbove(str1, str2, num, den) ==
    LET norm1 == normalize_string(str1)
        norm2 == normalize_string(str2)
        words1 == WordSet(norm1)
        words2 == WordSet(norm2)
        overlap == Cardinality(words1 \cap words2)
        total == Min(Cardinality(words1), Cardinality(words2))
    IN  IF norm1 = norm2 THEN TRUE
        ELSE IF IsSubstring(norm1, norm2) \/ IsSubstring(norm2, norm1) THEN TRUE
        ELSE IF words1 = {} \/ words2 = {} THEN FALSE
        ELSE IF total > 0 THEN overlap * den > num * total
        ELSE FALSE

\* MusicDataFetcher.strings_match; the threshold is the fraction num/den
strings_match(str1, str2, num, den) ==
    LET norm1 == normalize_string(str1)
        norm2 == normalize_string(str2)
        words1 == WordSet(norm1)
        words2 == WordSet(norm2)
        overlap == Cardinality(words1 \cap words2)
        total == Min(Cardinality(words1), Cardinality(words2))
    IN  IF norm1 = norm2 THEN TRUE
        ELSE IF IsSubstring(norm1, norm2) \/ IsSubstring(norm2, norm1) THEN TRUE
        ELSE IF words1 = {} \/ words2 = {} THEN FALSE
        ELSE IF total > 0 THEN overlap * den >= num * total
        ELSE FALSE

\* the return statement of strings_match(str1, str2) that is executed: the one
\* after the equality test, after the containment test, after the test for an
\* empty word set, or the last
DecidedBy(str1, str2) ==
    LET norm1 == normalize_string(str1)
        norm2 == normalize_string(str2)
    IN  IF norm1 = norm2 THEN "equal"
        ELSE IF IsSubstring(norm1, norm2) \/ IsSubstring(norm2, norm1)
        THEN "contained"
        ELSE IF WordSet(norm1) = {} \/ WordSet(norm2) = {} THEN "empty words"
        ELSE "overlap"

\* s.split(sep) for a one-character separator
Split(s, sep) ==
    LET F[i \in 0..Len(s)] ==
            IF i = 0 THEN << <<>> >>
            ELSE LET prev == F[i-1]
                 IN  IF s[i] = sep THEN Append(prev, <<>>)
                     ELSE [prev EXCEPT ![Len(prev)] = Append(prev[Len(prev)], s[i])]
    IN  F[Len(s)]

\* sep.join(parts)
Join(parts, sep) ==
    LET F[i \in 0..Len(parts)] ==
            IF i = 0 THEN <<>>
            ELSE IF i = 1 THEN parts[1]
                 ELSE F[i-1] \o sep \o parts[i]
    IN  F[Len(parts)]

-----------------------------------------------------------------------------
(* Dates *)

IsLeap(y) == (y % 4 = 0 /\ y % 100 # 0) \/ y % 400 = 0

DaysInMonth(y, m) ==
    IF m = 2 THEN (IF IsLeap(y) THEN 29 ELSE 28)
    ELSE IF m \in {4, 6, 9, 11} THEN 30 ELSE 31

\* datetime(y, m, d) exists
ValidYMD(y, m, d) ==
    /\ y \in 1..9999
    /\ m \in 1..12
    /\ d >= 1 /\ d <= DaysInMonth(y, m)

\* datetime(y, m, d).toordinal(): days since 0001-01-01, plus one
Ordinal(y, m, d) ==
    LET py == y - 1
        before == <<0, 31, 59, 90, 120, 151, 181, 212, 243, 273, 304, 334>>[m]
                  + (IF m > 2 /\ IsLeap(y) THEN 1 ELSE 0)
    IN  py * 365 + (py \div 4) - (py \div 100) + (py \div 400) + before + d

\* datetime.strptime(s, '%Y-%m-%d') succeeds
ParsesFull(s) == Len(s) = 3 /\ ValidYMD(s[1], s[2], s[3])

\* the day datetime.strptime(s, '%Y-%m-%d') gives
FullOrdinal(s) == Ordinal(s[1], s[2], s[3])

\* s[:10] of a date or timestamp string
Truncate10(s) == SubSeq(s, 1, Min(Len(s), 3))

Abs(n) == IF n < 0 THEN 0 - n ELSE n

-----------------------------------------------------------------------------
(* re.sub, for the patterns of clean_for_apple_music_search.  A pattern is a
   sequence of items, each a character class repeated lo..hi times (hi = 1, or
   no upper limit when many), greedy or lazy; `anchored` is a closing $. *)

Lit(c) == [kind |-> "lit", ch |-> c, lo |-> 1, many |-> FALSE, greedy |-> TRUE]
Opt(c) == [kind |-> "lit", ch |-> c, lo |-> 0, many |-> FALSE, greedy |-> TRUE]
Spaces0 == [kind |-> "space", ch |-> " ", lo |-> 0, many |-> TRUE, greedy |-> TRUE]
Spaces1 == [kind |-> "space", ch |-> " ", lo |-> 1, many |-> TRUE, greedy |-> TRUE]
Digits1 == [kind |-> "digit", ch |-> "0", lo |-> 1, many |-> TRUE, greedy |-> TRUE]
AnyGreedy == [kind |-> "any", ch |-> ".", lo |-> 0, many |-> TRUE, greedy |-> TRUE]
AnyLazy == [kind |-> "any", ch |-> ".", lo |-> 0, many |-> TRUE, greedy |-> FALSE]
Word(w) == [i \in 1..Len(w) |-> Lit(w[i])]

Pattern(items, anchored, ignorecase) ==
    [items |-> items, anchored |-> anchored, ignorecase |-> ignorecase]

\* whether character c is in the item's class
ClassHas(item, c, ignorecase) ==
    CASE item.kind = "lit" ->
            IF ignorecase THEN LowerChar(c) = LowerChar(item.ch) ELSE c = item.ch
      [] item.kind = "any" -> c # "\n"
      [] item.kind = "space" -> IsSpaceChar(c)
      [] item.kind = "digit" -> c \in DigitChars

\* $ matches at position i of s: at the end, or before a final newline
AtEnd(s, i) == i = Len(s) + 1 \/ (i = Len(s) /\ s[i] = "\n")

SetMax(S) == CHOOSE n \in S : \A m \in S : m <= n
SetMin(S) == CHOOSE n \in S : \A m \in S : n <= m

\* The function f as an explicit table, so that reading an element does not
\* compute it again (comparing a function constructor makes TLC enumerate it)
Computed(f) == IF f = f THEN f ELSE f

\* how many characters of s from position i on are in the item's class, up to
\* the most the item may take
Run(item, s, i, ignorecase) ==
    SetMax({n \in 0..(IF item.many THEN Len(s) + 1 - i ELSE Min(1, Len(s) + 1 - i)) :
               \A j \in 0..(n - 1) : ClassHas(item, s[i + j], ignorecase)})

\* the count the item settles on at position i: the first in its order of
\* preference with which the rest of the pattern matches; rest[j] is the end
\* of the match of the rest from position j, or 0
Preferred(item, counts) == IF item.greedy THEN SetMax(counts) ELSE SetMin(counts)

ItemEnd(item, rest, i, counts) ==
    IF counts = {} THEN 0 ELSE rest[i + Preferred(item, counts)]

ItemEnds(item, rest, s, ignorecase) ==
    Computed([i \in 1..(Len(s) + 1) |->
        ItemEnd(item, rest, i,
                {n \in item.lo..Run(item, s, i, ignorecase) : rest[i + n] # 0})])

\* For each position i of s (and the one after its end): the position just
\* after the match of pat that starts at i, as the backtracking matcher finds
\* it; 0 when pat does not match at i.
MatchEnds(pat, s) ==
    LET Ends[k \in 1..(Len(pat.items) + 1)] ==
            IF k = Len(pat.items) + 1
            THEN Computed([i \in 1..(Len(s) + 1) |->
                            IF pat.anchored /\ ~AtEnd(s, i) THEN 0 ELSE i])
            ELSE ItemEnds(pat.items[k], Ends[k + 1], s, pat.ignorecase)
    IN  Ends[1]

\* the end of the leftmost alternative that matches at position i, or 0
EndAt(ends, hits, i) == IF hits = {} THEN 0 ELSE ends[SetMin(hits)][i]

\* s with the matches replaced, given the ends of the matches of each
\* alternative at each position
Replaced(ends, repl, s) ==
    LET G[i \in 1..(Len(s) + 1)] ==
            IF i = Len(s) + 1 THEN <<>>
            ELSE LET e == EndAt(ends, {n \in DOMAIN ends : ends[n][i] # 0}, i)
                 IN  IF e # 0 THEN repl \o G[e] ELSE <<s[i]>> \o G[i + 1]
    IN  G[1]

\* re.sub(p, repl, s) for a pattern p that is the alternation of pats, none of
\* which matches the empty string: leftmost matches, not overlapping
Sub(pats, repl, s) ==
    Replaced(Computed([n \in DOMAIN pats |-> MatchEnds(pats[n], s)]), repl, s)

\* the alternatives of (deluxe|expanded|...|black\s+heart|errtime)
EditionWords ==
    << Word(<<"d","e","l","u","x","e">>),
       Word(<<"e","x","p","a","n","d","e","d">>),
       Word(<<"s","p","e","c","i","a","l">>),
       Word(<<"l","i","m","i","t","e","d">>),
       Word(<<"u","l","t","i","m","a","t","e">>),
       Word(<<"e","x","t","e","n","d","e","d">>),
       Word(<<"r","e","m","a","s","t","e","r">>),
       Word(<<"b","l","a","c","k">>) \o <<Spaces1>> \o Word(<<"h","e","a","r","t">>),
       Word(<<"e","r","r","t","i","m","e">>) >>

Feat == Word(<<"f","e","a","t">>) \o <<Lit(".")>>
Edition == Word(<<"e","d","i","t","i","o","n">>)

\* "Remove featured artist notation"
RemoveFeatured(text) ==
    Sub(<<Pattern(Word(<<"f","e","a","t","u","r","i","n","g">>) \o <<AnyGreedy>>,
                  TRUE, TRUE)>>, <<>>,
    Sub(<<Pattern(Feat \o <<AnyGreedy>>, TRUE, TRUE)>>, <<>>,
    Sub(<<Pattern(<<Lit("[")>> \o Feat \o <<AnyLazy, Lit("]")>>, FALSE, TRUE)>>, <<>>,
    Sub(<<Pattern(<<Lit("(")>> \o Feat \o <<AnyLazy, Lit(")")>>, FALSE, TRUE)>>, <<>>,
        text))))

\* "Remove volume/vol notation"
RemoveVolume(text) ==
    Sub(<<Pattern(<<Opt(","), Spaces0>> \o Word(<<"v","o","l","u","m","e">>)
                  \o <<Spaces0, Digits1>>, FALSE, TRUE)>>, <<>>,
    Sub(<<Pattern(<<Opt(","), Spaces0>> \o Word(<<"v","o","l">>)
                  \o <<Opt("."), Spaces0, Digits1>>, FALSE, TRUE)>>, <<>>,
        text))

\* "Remove pt/part notation for singles"
RemovePart(text) ==
    Sub(<<Pattern(<<Opt(","), Spaces0>> \o Word(<<"p","a","r","t">>)
                  \o <<Spaces0, Digits1>>, FALSE, TRUE)>>, <<>>,
    Sub(<<Pattern(<<Opt(","), Spaces0>> \o Word(<<"p","t">>)
                  \o <<Opt("."), Spaces0, Digits1>>, FALSE, TRUE)>>, <<>>,
        text))

\* "Remove edition markers that make search too specific"
RemoveEdition(text) ==
    Sub([n \in DOMAIN EditionWords |->
            Pattern(<<Spaces1>> \o EditionWords[n] \o <<Spaces1>> \o Edition,
                    TRUE, TRUE)], <<>>,
    Sub(<<Pattern(<<Lit("["), AnyLazy>> \o Edition \o <<Lit("]")>>, FALSE, TRUE)>>, <<>>,
    Sub(<<Pattern(<<Lit("("), AnyLazy>> \o Edition \o <<Lit(")")>>, FALSE, TRUE)>>, <<>>,
        text)))

\* "Remove remix indicators (keep them simple)"
SimplifyRemix(text) ==
    Sub(<<Pattern(<<Spaces0, Lit("-"), Spaces0, AnyLazy>>
                  \o Word(<<"r","e","m","i","x">>), TRUE, TRUE)>>,
        <<" ", "R", "e", "m", "i", "x">>, text)

\* "Remove trailing commas"
RemoveTrailingComma(text) ==
    Sub(<<Pattern(<<Lit(","), Spaces0>>, TRUE, FALSE)>>, <<>>, text)

\* MusicDataFetcher.clean_for_apple_music_search
clean_for_apple_music_search(text) ==
    Strip(CollapseSpaces(RemoveTrailingComma(SimplifyRemix(RemoveEdition(
        RemovePart(RemoveVolume(RemoveFeatured(text))))))))

\* urllib.parse.quote on one character: letters, digits and _.-~/ are kept,
\* anything else becomes the %XX of its byte
QuoteChar(c) ==
    IF IsWordChar(c) \/ c \in {".", "-", "~", "/"} THEN c
    ELSE CASE c = " " -> "%20" [] c = "!" -> "%21" [] c = "\"" -> "%22"
           [] c = "#" -> "%23" [] c = "$" -> "%24" [] c = "%" -> "%25"
           [] c = "&" -> "%26" [] c = "'" -> "%27" [] c = "(" -> "%28"
           [] c = ")" -> "%29" [] c = "*" -> "%2A" [] c = "+" -> "%2B"
           [] c = "," -> "%2C" [] c = ":" -> "%3A" [] c = ";" -> "%3B"
           [] c = "<" -> "%3C" [] c = "=" -> "%3D" [] c = ">" -> "%3E"
           [] c = "?" -> "%3F" [] c = "@" -> "%40" [] c = "[" -> "%5B"
           [] c = "\\" -> "%5C" [] c = "]" -> "%5D" [] c = "^" -> "%5E"
           [] c = "{" -> "%7B" [] c = "|" -> "%7C"
           [] c = "}" -> "%7D" [] c = "\t" -> "%09" [] c = "\n" -> "%0A"
           [] c = "\r" -> "%0D"

\* urllib.parse.quote
Quote(s) == [i \in 1..Len(s) |-> QuoteChar(s[i])]

-----------------------------------------------------------------------------
(* The cross-catalog resolver *)

NoUrl == <<>>
Url1 == <<"https://music.apple.com/us/album/1">>
Url2 == <<"https://music.apple.com/us/album/2">>

\* Number of results of one response the model lets the catalog send
\* (the request asks for at most 5)
MaxResults == 2

\* 'Midnights (3am Edition)' and 'Midnights'
Midnights3am ==
    <<"M", "i", "d", "n", "i", "g", "h", "t", "s", " ",
      "(", "3", "a", "m", " ", "E", "d", "i", "t", "i", "o", "n", ")">>
Midnights == SubSeq(Midnights3am, 1, 9)

\* a release with an edition suffix in its title, by 'T,C' and 'Q'
EditionSample ==
    [name |-> Midnights3am,
     artists |-> << <<"T", ",", "C">>, <<"Q">> >>,
     release_date |-> <<2025, 3, 10>>]

\* The releases handed to get_album_details: title 'B-a!' by Q, or by Q and
\* 'R,S', dated to the day, the month, the year, or not at all; and the
\* release with the edition suffix
AlbumSamples ==
    [name : {<<"B", "-", "a", "!">>},
     artists : {<< <<"Q">> >>, << <<"Q">>, <<"R", ",", "S">> >>},
     release_date : {<<2025, 3, 10>>, <<2025, 3>>, <<2025>>, <<>>}]
    \cup {EditionSample}

\* One record of data['results'], each field read with its .get default
\* (a missing collectionName, artistName, collectionType or releaseDate is '',
\* a missing trackCount is 0, a missing collectionViewUrl is None)
PlainResults ==
    [collectionName : {<<"b", " ", "a">>, <<"a", " ", "b">>, <<"x">>, <<>>},
     artistName : {<<"q">>, <<"Q", " ", "z">>, <<"z">>, <<"r">>},
     releaseDate : {<<2025, 3, 10, 7>>, <<2025, 3, 15, 7>>, <<2025, 5, 1, 7>>, <<>>},
     collectionType : {"Album"},
     trackCount : {10},
     collectionViewUrl : {Url1}]

OddResults ==
    [collectionName : {<<"b", " ", "a">>},
     artistName : {<<"q">>},
     releaseDate : {<<2025, 3, 10, 7>>},
     collectionType : {"Album", "EP", "", "Podcast"},
     trackCount : {0, 10},
     collectionViewUrl : {NoUrl, Url1, Url2}]

Results == PlainResults \cup OddResults

NoResult ==
    [collectionName |-> <<>>, artistName |-> <<>>, releaseDate |-> <<>>,
     collectionType |-> "", trackCount |-> 0, collectionViewUrl |-> NoUrl]

\* best_match = None
NoMatch ==
    [url |-> NoUrl, album |-> <<>>, artist |-> <<>>, type |-> "", tracks |-> 0,
     release |-> <<>>, score |-> 0, attempt |-> 0]

NoLast == [result |-> NoResult, outcome |-> "none", score |-> 0]

NoDetails == [name |-> <<>>, artists |-> <<>>, release_date |-> <<>>,
              apple_music_url |-> NoUrl]

\* ", ".join(artist['name'] for artist in album['artists'])
JoinedArtists(a) == Join(a.artists, <<",", " ">>)

\* primary_artist = artist_name.split(',')[0].strip()
PrimaryArtist(artist_name) == Strip(Split(artist_name, ",")[1])

\* search_attempts
SearchAttempts(album_name, artist_name) ==
    << album_name \o <<" ">> \o PrimaryArtist(artist_name),
       album_name,
       album_name \o <<" ">> \o artist_name >>

\* artist_list = [a.strip() for a in artist_name.split(',')]
ArtistList(artist_name) ==
    LET parts == Split(artist_name, ",")
    IN  [i \in 1..Len(parts) |-> Strip(parts[i])]

\* TypeAccepted where every collection type is let through
TypeAcceptedAny(result_type) == result_type = result_type

\* result_type not in ['Album', 'EP', 'Single', ''] is the rejection
TypeAccepted(result_type) == result_type \in {"Album", "EP", "Single", ""}

\* album_matches
AlbumMatches(album_name, result_album) ==
    strings_match(album_name, result_album, ThresholdNum, ThresholdDen)

\* artist_matches
ArtistMatches(artist_name, result_artist) ==
    \E a \in Range(ArtistList(artist_name)) :
        strings_match(a, result_artist, ThresholdNum, ThresholdDen)

\* Validated without the artist
ValidatedTitleOnly(album_name, artist_name, result) ==
    AlbumMatches(album_name, result.collectionName)

\* if album_matches and artist_matches:
Validated(album_name, artist_name, result) ==
    /\ AlbumMatches(album_name, result.collectionName)
    /\ ArtistMatches(artist_name, result.artistName)

\* the title part of the score
TitleScore(album_name, result_album) ==
    IF normalize_string(album_name) = normalize_string(result_album) THEN 100
    ELSE IF AlbumMatches(album_name, result_album) THEN 50
    ELSE 0

\* the artist part of the score
ArtistScore(artist_name, result_artist) ==
    IF \E a \in Range(ArtistList(artist_name)) :
           normalize_string(a) = normalize_string(result_artist)
    THEN 100
    ELSE IF ArtistMatches(artist_name, result_artist) THEN 50
    ELSE 0

\* datetime.strptime raises ValueError in the date part of the score
DateRaises(release_date, result_release) ==
    /\ release_date # <<>> /\ result_release # <<>>
    /\ release_date # result_release
    /\ ~(ParsesFull(release_date) /\ ParsesFull(result_release))

\* the date part of the score, where it does not raise
DateScore(release_date, result_release) ==
    IF release_date = <<>> \/ result_release = <<>> THEN 0
    ELSE IF release_date = result_release THEN 50
    ELSE IF Abs(FullOrdinal(release_date) - FullOrdinal(result_release)) <= 7 THEN 25
    ELSE 0

\* MatchScore without the date part
MatchScoreNoDate(album_name, artist_name, release_date, result) ==
    TitleScore(album_name, result.collectionName)
    + ArtistScore(artist_name, result.artistName)

\* score, as computed for a validated result
MatchScore(album_name, artist_name, release_date, result) ==
    TitleScore(album_name, result.collectionName)
    + ArtistScore(artist_name, result.artistName)
    + DateScore(release_date, Truncate10(result.releaseDate))

\* if apple_music_url and score > best_match_score:
Improves(url, score, best_score) == url # NoUrl /\ score > best_score

\* StrongMatch with the threshold at 200
StrongMatchAt200(best, best_score) == best # NoMatch /\ best_score >= 200

\* if best_match and best_match_score >= 100:
StrongMatch(best, best_score) == best # NoMatch /\ best_score >= 100

\* if best_match and best_match_score >= 75:
WeakMatch(best, best_score) == best # NoMatch /\ best_score >= 75

\* what the assignment to best_match stores
MatchRecord(result, score, attempt) ==
    [url |-> result.collectionViewUrl, album |-> result.collectionName,
     artist |-> result.artistName, type |-> result.collectionType,
     tracks |-> result.trackCount, release |-> Truncate10(result.releaseDate),
     score |-> score, attempt |-> attempt]

\* StoredScore where `best_match_score = score` is left out
StoredScoreStale(score) == 0

\* best_match_score after a new best match of `score` is stored
StoredScore(score) == score

\* What one pass of `for result in data['results']` does with `result` for
\* release a: how the pass ends, and the score where one is computed
Examine(a, result) ==
    LET artist_name == JoinedArtists(a)
        result_release == Truncate10(result.releaseDate)
    IN  IF ~TypeAccepted(result.collectionType)
        THEN [outcome |-> "rejected type", score |-> 0]
        ELSE IF result.trackCount = 0
        THEN [outcome |-> "rejected tracks", score |-> 0]
        ELSE IF ~Validated(a.name, artist_name, result)
        THEN [outcome |-> "not validated", score |-> 0]
        ELSE IF DateRaises(a.release_date, result_release)
        THEN [outcome |-> "raised", score |-> 0]
        ELSE [outcome |-> "scored",
              score |-> MatchScore(a.name, artist_name, a.release_date, result)]

\* Examine and SearchAttempts over the sampled releases and results,
\* evaluated once
Examined ==
    Computed([a \in AlbumSamples |-> Computed([r \in Results |-> Examine(a, r)])])
Attempts ==
    Computed([a \in AlbumSamples |-> SearchAttempts(a.name, JoinedArtists(a))])

\* search_itunes_for_album returns `url`, having left the loop the way `how` says
Return(url, how) ==
    /\ found_url' = url
    /\ exit' = how
    /\ pc' = "returned"

\* requests.get for the next entry of search_attempts, up to the result loop.
\* The catalog answers with a transport error, a timeout, an error status or
\* a body that is no JSON ("error"), with resultCount 0 ("empty"), with a
\* resultCount > 0 and no 'results' key ("malformed"), or with a resultCount > 0
\* and a list of n results.
IssueQuery ==
    /\ pc = "query"
    /\ attempt_num < Len(Attempts[album])
    /\ attempt_num' = attempt_num + 1
    /\ issued' = Append(issued, Attempts[album][attempt_num + 1])
    /\ \/ /\ Return(NoUrl, "error")
          /\ pending' = 0
       \/ /\ pc' = "query"
          /\ pending' = 0
          /\ UNCHANGED <<found_url, exit>>
       \/ /\ Return(NoUrl, "malformed")
          /\ pending' = 0
       \/ /\ pending' \in 0..MaxResults
          /\ pc' = "results"
          /\ UNCHANGED <<found_url, exit>>
    /\ UNCHANGED <<album, best_match, best_match_score, last, details>>
    /\ UNCHANGED <<fvars, mvars, tvars>>

\* one pass of `for result in data['results']`
ProcessResult ==
    /\ pc = "results"
    /\ pending > 0
    /\ \E result \in Results :
        LET seen == Examined[album][result]
        IN  /\ last' = [result |-> result, outcome |-> seen.outcome,
                        score |-> seen.score]
            /\ pending' = pending - 1
            /\ IF seen.outcome = "raised"
               THEN /\ Return(NoUrl, "error")
                    /\ UNCHANGED <<best_match, best_match_score>>
               ELSE /\ IF /\ seen.outcome = "scored"
                          /\ Improves(result.collectionViewUrl, seen.score,
                                      best_match_score)
                       THEN /\ best_match' = MatchRecord(result, seen.score, attempt_num)
                            /\ best_match_score' = StoredScore(seen.score)
                       ELSE UNCHANGED <<best_match, best_match_score>>
                    /\ UNCHANGED <<pc, found_url, exit>>
    /\ UNCHANGED <<album, attempt_num, issued, details>>
    /\ UNCHANGED <<fvars, mvars, tvars>>

\* after the result loop of one query: the early return, or on to the next query
EndOfResults ==
    /\ pc = "results"
    /\ pending = 0
    /\ IF StrongMatch(best_match, best_match_score)
       THEN Return(best_match.url, "early")
       ELSE /\ pc' = "query"
            /\ UNCHANGED <<found_url, exit>>
    /\ UNCHANGED <<album, attempt_num, issued, pending, best_match,
                   best_match_score, last, details>>
    /\ UNCHANGED <<fvars, mvars, tvars>>

\* after the last query: the weak-match acceptance, or None
LoopExhausted ==
    /\ pc = "query"
    /\ attempt_num = Len(Attempts[album])
    /\ IF WeakMatch(best_match, best_match_score)
       THEN Return(best_match.url, "accepted")
       ELSE Return(NoUrl, "exhausted")
    /\ UNCHANGED <<album, attempt_num, issued, pending, best_match,
                   best_match_score, last, details>>
    /\ UNCHANGED <<fvars, mvars, tvars>>

\* FallbackUrl with all the artists in the search term
FallbackUrlAllArtists(a) ==
    <<"https://music.apple.com/us/search?term=">>
    \o Quote(clean_for_apple_music_search(a.name) \o <<" ">>
             \o JoinedArtists(a))

\* the search URL get_album_details builds when the search returned nothing
FallbackUrl(a) ==
    <<"https://music.apple.com/us/search?term=">>
    \o Quote(clean_for_apple_music_search(a.name) \o <<" ">>
             \o PrimaryArtist(JoinedArtists(a)))

\* FallbackUrl over the sampled releases, evaluated once
Fallbacks == Computed([a \in AlbumSamples |-> FallbackUrl(a)])

\* ChosenUrl without the `if not apple_music_url` fallback
ChosenUrlNoFallback(a, url) == url

\* apple_music_url of the record get_album_details returns
ChosenUrl(a, url) == IF url # NoUrl THEN url ELSE Fallbacks[a]

\* get_album_details, from the return of search_itunes_for_album on
BuildDetails ==
    /\ pc = "returned"
    /\ details' = [name |-> album.name,
                   artists |-> JoinedArtists(album),
                   release_date |-> album.release_date,
                   apple_music_url |-> ChosenUrl(album, found_url)]
    /\ pc' = "done"
    /\ UNCHANGED <<album, attempt_num, issued, pending, best_match,
                   best_match_score, last, exit, found_url>>
    /\ UNCHANGED <<fvars, mvars, tvars>>

\* get_album_details(album) is called
InitResolver ==
    /\ album \in AlbumSamples
    /\ pc = "query"
    /\ attempt_num = 0
    /\ issued = <<>>
    /\ pending = 0
    /\ best_match = NoMatch
    /\ best_match_score = 0
    /\ last = NoLast
    /\ exit = "none"
    /\ found_url = NoUrl
    /\ details = NoDetails

IdleFilter ==
    /\ fpc = "idle" /\ now = <<>> /\ albums = <<>> /\ more_albums = <<>>
    /\ params = <<>> /\ dedup_in = <<>> /\ unique = <<>>
    /\ passed = <<>> /\ returned = <<>>

IdleMain ==
    /\ mpc = "idle" /\ creds = <<>> /\ spotify_token = <<>> /\ calls = {}
    /\ data = <<>> /\ written = <<>>

Init == InitResolver /\ IdleFilter /\ IdleMain /\ IdleText

Next ==
    \/ IssueQuery
    \/ ProcessResult
    \/ EndOfResults
    \/ LoopExhausted
    \/ BuildDetails

Spec == Init /\ [][Next]_vars
-----------------------------------------------------------------------------
(* Properties of the resolver, checked under Spec *)

\* search_attempts as the design words it: title + primary artist, title
\* alone, title + all artists
QueryOrder ==
    << album.name \o <<" ">> \o Strip(Split(JoinedArtists(album), ",")[1]),
       album.name,
       album.name \o <<" ">> \o JoinedArtists(album) >>

\* C1: the queries issued are a prefix of the fixed order; no further query is
\* about to be issued once the best score is at least 100; and an early return
\* hands back the URL of the best candidate, recorded in the query issued last,
\* so no query follows the one that produced it.
C1_EarlyStop ==
    /\ Len(issued) = attempt_num
    /\ Len(issued) <= Len(QueryOrder)
    /\ issued = SubSeq(QueryOrder, 1, Len(issued))
    /\ pc = "query" => best_match_score < 100
    /\ exit = "early" =>
        /\ best_match # NoMatch
        /\ best_match.score >= 100
        /\ found_url = best_match.url
        /\ best_match.attempt = Len(issued)

\* C1: an early return after the first query, with the lowest score that stops
C1_Witness ==
    /\ pc = "done"
    /\ exit = "early"
    /\ issued = <<QueryOrder[1]>>
    /\ best_match.score = 100
    /\ found_url = Url1

\* C2: when the three queries are through without an early return, the URL of
\* a best candidate scoring at least 75 is returned, and no URL when there is
\* no candidate or it scores less.
C2_FinalAcceptance ==
    exit \in {"accepted", "exhausted"} =>
        /\ Len(issued) = 3
        /\ IF best_match # NoMatch /\ best_match.score >= 75
           THEN found_url = best_match.url /\ found_url # NoUrl
           ELSE found_url = NoUrl

\* C2: three queries answered with candidates, none recorded, no URL returned
C2_Witness ==
    /\ exit = "exhausted"
    /\ Len(issued) = 3
    /\ last.outcome = "not validated"
    /\ best_match = NoMatch
    /\ found_url = NoUrl

\* The three parts of the score as the design states them, for release a and
\* result r
TitlePart(a, r) ==
    IF normalize_string(a.name) = normalize_string(r.collectionName) THEN 100
    ELSE IF strings_match(a.name, r.collectionName, 7, 10) THEN 50
    ELSE 0

ArtistPart(a, r) ==
    LET artists == Range(ArtistList(JoinedArtists(a)))
    IN  IF \E x \in artists : normalize_string(x) = normalize_string(r.artistName)
        THEN 100
        ELSE IF \E x \in artists : strings_match(x, r.artistName, 7, 10)
        THEN 50
        ELSE 0

DatePart(a, r) ==
    LET d == Truncate10(r.releaseDate)
    IN  IF a.release_date = <<>> \/ d = <<>> THEN 0
        ELSE IF a.release_date = d THEN 50
        ELSE IF /\ ParsesFull(a.release_date) /\ ParsesFull(d)
                /\ FullOrdinal(a.release_date) - FullOrdinal(d) \in (0 - 7)..7
        THEN 25
        ELSE 0

\* the date comparison cannot be made: two different non-empty dates, one of
\* them not a full date
DateUnparsable(a, r) ==
    LET d == Truncate10(r.releaseDate)
    IN  /\ a.release_date # <<>> /\ d # <<>> /\ a.release_date # d
        /\ ~(ParsesFull(a.release_date) /\ ParsesFull(d))

\* the parts over the sampled releases and results
Parts ==
    Computed([a \in AlbumSamples |->
        Computed([r \in Results \cup {NoResult} |->
            [title |-> TitlePart(a, r), artist |-> ArtistPart(a, r),
             date |-> DatePart(a, r), unparsable |-> DateUnparsable(a, r)]])])

PartsSum(a, r) == Parts[a][r].title + Parts[a][r].artist + Parts[a][r].date

\* the result survives the type and the track-count rejection
Survives(r) == TypeAccepted(r.collectionType) /\ r.trackCount # 0

\* strings_match accepts the title and one of the artists
BothAccepted(a, r) == Parts[a][r].title > 0 /\ Parts[a][r].artist > 0

\* C3 as stated: every result that survives the type and the track-count
\* rejection is given the sum of the three parts as its score, is compared
\* with the best so far by that sum, and the sum is at most 250.
C3_EverySurvivorScored ==
    (last.outcome # "none" /\ Survives(last.result)) =>
        /\ last.outcome = "scored"
        /\ last.score = PartsSum(album, last.result)
        /\ last.score <= 250
        /\ last.result.collectionViewUrl # NoUrl =>
               best_match_score >= PartsSum(album, last.result)

\* C3, amended: a surviving result is scored only if strings_match accepts
\* both its title and one of the artists; its score is then the sum of the
\* three parts, between 100 and 250, and it is compared with the best so far
\* by that sum.  A surviving result that fails either match gets no score and
\* leaves no trace in the best match; one whose date cannot be compared with
\* the release's ends the search with no URL.
C3_ValidatedScored ==
    LET r == last.result
        surviving == last.outcome # "none" /\ Survives(r)
    IN  /\ last.outcome \in {"scored", "not validated", "raised"} <=> surviving
        /\ surviving =>
            /\ last.outcome = "not validated" <=> ~BothAccepted(album, r)
            /\ last.outcome = "raised" <=>
                   (BothAccepted(album, r) /\ Parts[album][r].unparsable)
        /\ last.outcome = "scored" =>
            /\ last.score = PartsSum(album, r)
            /\ last.score >= 100 /\ last.score <= 250
            /\ r.collectionViewUrl # NoUrl => best_match_score >= last.score
        /\ last.outcome = "not validated" =>
            /\ last.score = 0
            /\ best_match # NoMatch => best_match.album # r.collectionName
                                       \/ best_match.artist # r.artistName
        /\ last.outcome = "raised" =>
            /\ exit = "error" /\ found_url = NoUrl /\ pc \in {"returned", "done"}
        /\ best_match # NoMatch => best_match.score = best_match_score

\* C3: a result scored 50 for the title, 50 for the artist and 25 for the date
\* is the best match
C3_Witness ==
    /\ last.outcome = "scored"
    /\ Parts[album][last.result].title = 50
    /\ Parts[album][last.result].artist = 50
    /\ Parts[album][last.result].date = 25
    /\ last.score = 125
    /\ best_match_score = 125

\* C4: the record get_album_details returns carries a non-empty URL: the URL
\* the search returned, or else the search-page URL built from the release.
C4_UrlNeverEmpty ==
    pc = "done" =>
        /\ details.apple_music_url # NoUrl
        /\ found_url # NoUrl => details.apple_music_url = found_url
        /\ found_url = NoUrl =>
            /\ details.apple_music_url[1] = "https://music.apple.com/us/search?term="
            /\ details.apple_music_url = FallbackUrl(album)
        /\ details.name = album.name

\* C4: the second query ends in a transport error and the fallback URL is used
C4_Witness ==
    /\ pc = "done"
    /\ exit = "error"
    /\ Len(issued) = 2
    /\ found_url = NoUrl
    /\ Len(details.apple_music_url) > 1

\* the search page of the secondary catalog
SearchPage == <<"https://music.apple.com/us/search?term=">>

\* the text before the first comma of the artist string, without the spaces
\* around it
FirstBeforeComma(artists) ==
    LET n == CHOOSE k \in 1..(Len(artists) + 1) :
                 /\ k = Len(artists) + 1 \/ artists[k] = ","
                 /\ \A j \in 1..(k - 1) : artists[j] # ","
    IN  Strip(SubSeq(artists, 1, n - 1))

\* the search term the design asks for: the cleaned title, a space, the
\* primary artist, percent-encoded
SearchTerms ==
    Computed([a \in AlbumSamples |->
        Quote(clean_for_apple_music_search(a.name) \o <<" ">>
              \o FirstBeforeComma(JoinedArtists(a)))])

C16_DatePrecisionHonoured ==
    LET r == last.result
    IN  (/\ Len(album.release_date) \in {1, 2}
         /\ last.outcome # "none"
         /\ Survives(r)
         /\ BothAccepted(album, r)
         /\ Truncate10(r.releaseDate) # <<>>) =>
            /\ last.outcome = "scored"
            /\ exit # "error"
            /\ (pc = "done" /\ r.collectionViewUrl # NoUrl) => found_url # NoUrl

\* a collection type and a track count the design lets through
Admissible(type, tracks) ==
    type \in {"Album", "EP", "Single", ""} /\ tracks # 0

\* C19: the best match so far is never a result whose collection type is
\* outside Album, EP, Single and unspecified or whose track count is zero or
\* missing, a URL the search returns is the URL of the best match, and the
\* pass over such a result leaves the best match and its score as they were.
C19_RejectedNeverBest ==
    /\ [](/\ best_match # NoMatch =>
                 Admissible(best_match.type, best_match.tracks)
          /\ found_url # NoUrl =>
                 /\ found_url = best_match.url
                 /\ Admissible(best_match.type, best_match.tracks))
    /\ [][(/\ pending' = pending - 1
           /\ ~Admissible(last'.result.collectionType, last'.result.trackCount))
          => /\ best_match' = best_match
             /\ best_match_score' = best_match_score
             /\ found_url' = NoUrl]_vars

\* C19: a response holds a matching album and then a podcast of the same title
\* and artist under another URL; the album's URL is returned
C19_Witness ==
    /\ pc = "done"
    /\ last.result.collectionType = "Podcast"
    /\ last.result.trackCount = 10
    /\ last.result.collectionViewUrl = Url2
    /\ BothAccepted(album, last.result)
    /\ last.outcome = "rejected type"
    /\ best_match.type = "Album"
    /\ found_url = Url1

\* the scores a recorded best match can have
RecordedScores == {100, 125, 150, 175, 200, 225, 250}

\* C20: a recorded best match has a non-empty URL and is a result whose title
\* and artist strings_match accepts, with a score among 100, 125, ..., 250;
\* a URL the search returns is returned by the early stop of the query that
\* recorded the match, before which no match was recorded; and the acceptance
\* after the last query returns no candidate scoring below 100.
C20_RecordedMeansStrong ==
    /\ best_match # NoMatch =>
        /\ best_match.url # NoUrl
        /\ \E r \in Results :
               /\ r.collectionName = best_match.album
               /\ r.artistName = best_match.artist
               /\ r.collectionViewUrl = best_match.url
               /\ BothAccepted(album, r)
        /\ best_match.score \in RecordedScores
        /\ best_match_score = best_match.score
        /\ best_match.attempt = Len(issued)
    /\ pc = "query" => best_match = NoMatch
    /\ found_url # NoUrl =>
        /\ exit = "early"
        /\ found_url = best_match.url
    /\ exit = "accepted" => best_match.score >= 100

\* C20: the first query brings nothing that is recorded, the second records
\* a match scoring 200 and stops the search with its URL
C20_Witness ==
    /\ pc = "done"
    /\ exit = "early"
    /\ Len(issued) = 2
    /\ best_match.attempt = 2
    /\ best_match.score = 200
    /\ best_match.url = Url2
    /\ found_url = Url2

-----------------------------------------------------------------------------
(* The filter operations: operators *)

\* `return filtered[:10]`
TopN == 10

\* timedelta(days=60) of get_genre_releases and get_releases_from_artist_database
WindowDays == 60

\* the default of filter_by_genre_and_recency's days
DefaultDays == 30

\* album.get('popularity', 0); a popularity of <<>> is a missing key
Popularity(a) == IF a.popularity = <<>> THEN 0 ELSE a.popularity[1]

\* the try block that parses release_date_str does not raise
DateParses(s) ==
    CASE Len(s) = 1 -> s[1] \in 1..9999
      [] Len(s) = 2 -> s[1] \in 1..9999 /\ s[2] \in 1..12
      [] Len(s) = 3 -> ValidYMD(s[1], s[2], s[3])
      [] OTHER -> FALSE

\* the day of album_date: January 1 of a year, the first of a month, or the day
AlbumDate(s) ==
    Ordinal(s[1], IF Len(s) >= 2 THEN s[2] ELSE 1, IF Len(s) = 3 THEN s[3] ELSE 1)

\* cutoff_date = datetime.now() - timedelta(days=days), as [day, tod]
CutoffDate(t, days) == [day |-> FullOrdinal(t.date) - days, tod |-> t.tod]

\* BeforeCutoff with the years compared in place of the dates
BeforeCutoffByYear(s, t, days) == s[1] < t.date[1]

\* album_date < cutoff_date; album_date is a midnight
BeforeCutoff(s, t, days) ==
    LET cutoff_date == CutoffDate(t, days)
    IN  \/ AlbumDate(s) < cutoff_date.day
        \/ AlbumDate(s) = cutoff_date.day /\ 0 < cutoff_date.tod

\* ' '.join(artist_genres).lower()
GenresStr(artist_genres) == Lower(Join(artist_genres, <<" ">>))

\* keyword.lower() for keyword in genre_keywords.split()
KeywordsBySpace(genre_keywords) == {Lower(w) : w \in WordSet(genre_keywords)}

\* genre_keywords_list = [kw.strip().lower() for kw in genre_keywords.split(',')]
KeywordsByComma(genre_keywords) ==
    {Lower(Strip(kw)) : kw \in Range(Split(genre_keywords, ","))}

\* genre_match
GenreMatch(keywords, artist_genres) ==
    \E keyword \in keywords : IsSubstring(keyword, GenresStr(artist_genres))

\* artist_id = artists[0]['id'] raises KeyError
LookupRaises(a) == ~a.artists[1].has_id

\* artist_info.get('genres', []), artist_info being {} when the request failed
ArtistGenres(a) == a.artists[1].genres

\* one pass of `for album in albums` in filter_by_genre_and_recency appends album
KeptByFilter(a, t, p) ==
    /\ DateParses(a.release_date)
    /\ Popularity(a) >= p.min_popularity
    /\ IF p.trust_source
       THEN a.release_date[1] = t.date[1]
       ELSE /\ ~BeforeCutoff(a.release_date, t, p.days)
            /\ a.artists # <<>>
            /\ \/ LookupRaises(a)
               \/ ArtistGenres(a) = <<>>
               \/ GenreMatch(KeywordsBySpace(p.genre_keywords), ArtistGenres(a))

\* one pass of `for album in all_releases` in get_genre_releases appends album
KeptByGenreReleases(a, t, p) ==
    /\ DateParses(a.release_date)
    /\ ~BeforeCutoff(a.release_date, t, WindowDays)
    /\ Popularity(a) >= p.min_popularity
    /\ a.artists # <<>>
    /\ ~LookupRaises(a)
    /\ ArtistGenres(a) # <<>>
    /\ GenreMatch(KeywordsByComma(p.genre_keywords), ArtistGenres(a))

\* one pass of `for album in albums` in get_releases_from_artist_database
\* appends album to all_albums
KeptByArtistDatabase(a, t) ==
    /\ DateParses(a.release_date)
    /\ ~BeforeCutoff(a.release_date, t, WindowDays)

\* Enriched where the loop ends at the first album whose request failed
EnrichedUntilFailure(list) ==
    LET failed == {i \in 1..Len(list) : list[i].full = <<>>}
        n == IF failed = {} THEN Len(list)
             ELSE (CHOOSE i \in failed : \A j \in failed : i <= j) - 1
    IN  [i \in 1..n |->
            [list[i] EXCEPT !.popularity = <<Popularity(list[i].full[1])>>]]

\* enrich_albums_with_popularity; a.full is what get_full_album_details
\* returns for the album: <<>> (None: the request failed) or <<record>>.
\* Every album here has the key 'id' that line 72 reads, an id of <<>> being
\* None or ''; EnrichRaises has the album without the key.
Enriched(list) ==
    LET fetched == SelectSeq(list, LAMBDA a : a.full # <<>>)
    IN  [i \in 1..Len(fetched) |->
            [fetched[i] EXCEPT !.popularity = <<Popularity(fetched[i].full[1])>>]]

\* the seen_ids loop without the seen_ids test
KeepIdentified(list) == SelectSeq(list, LAMBDA a : a.id # <<>>)

\* the seen_ids loop where a later album of an id replaces the one kept
DeduplicatedKeepLast(list) ==
    LET F[i \in 0..Len(list)] ==
            IF i = 0 THEN <<>>
            ELSE LET prev == F[i-1]
                 IN  IF list[i].id = <<>> THEN prev
                     ELSE IF \A j \in 1..Len(prev) : prev[j].id # list[i].id
                     THEN Append(prev, list[i])
                     ELSE [j \in 1..Len(prev) |->
                              IF prev[j].id = list[i].id THEN list[i] ELSE prev[j]]
    IN  F[Len(list)]

\* the seen_ids loop: the first album of each id, albums without id dropped
Deduplicated(list) ==
    LET F[i \in 0..Len(list)] ==
            IF i = 0 THEN <<>>
            ELSE LET prev == F[i-1]
                 IN  IF /\ list[i].id # <<>>
                        /\ \A j \in 1..Len(prev) : prev[j].id # list[i].id
                     THEN Append(prev, list[i])
                     ELSE prev
    IN  F[Len(list)]

\* a < b for two date strings
DateStringLess(a, b) ==
    \E i \in 1..Len(b) :
        /\ i - 1 <= Len(a)
        /\ \A j \in 1..(i - 1) : a[j] = b[j]
        /\ (i > Len(a) \/ a[i] < b[i])

\* key=lambda x: x.get('popularity', 0), compared
PopularityGeq(a, b) == Popularity(a) >= Popularity(b)

\* key=lambda x: (x.get('release_date', ''), x.get('popularity', 0)), compared
DateThenPopularityGeq(a, b) ==
    \/ DateStringLess(b.release_date, a.release_date)
    \/ a.release_date = b.release_date /\ Popularity(a) >= Popularity(b)

\* list.sort(key=..., reverse=True): descending by key, albums of equal key in
\* the order they had
SortedDescending(list, Geq(_, _)) ==
    LET F[i \in 0..Len(list)] ==
            IF i = 0 THEN <<>>
            ELSE LET prev == F[i-1]
                     k == Cardinality({j \in 1..Len(prev) : Geq(prev[j], list[i])})
                 IN  SubSeq(prev, 1, k) \o <<list[i]>> \o SubSeq(prev, k + 1, Len(prev))
    IN  F[Len(list)]

\* the final sort without the sort
Unsorted(list) == list

\* filtered.sort(key=lambda x: x.get('popularity', 0), reverse=True)
SortedByPopularity(list) == SortedDescending(list, PopularityGeq)

\* unique_albums.sort(key=lambda x: (release_date, popularity), reverse=True)
SortedByDateThenPopularity(list) == SortedDescending(list, DateThenPopularityGeq)

\* filtered[:10] without the slice
Untruncated(list) == list

\* filtered[:10]
Truncated(list) == SubSeq(list, 1, Min(Len(list), TopN))

\* unique_albums[0].get('artists', [{}])[0] raises IndexError
PrintRaises(list) == list # <<>> /\ list[1].artists = <<>>

-----------------------------------------------------------------------------
(* The filter operations: what the catalog sends, and the operations *)

\* Length of the album lists built from AlbumChoices
MaxAlbums == 2

\* Length of the longest list of LongLists
MaxLong == 11

KwRock == <<"r", "o", "c", "k">>
KwPopRock == <<"P", "o", "p", ",", " ", "r", "o", "c", "k">>

\* artists[0] of an album, with the genres the catalog reports for the artist
Untagged == [has_id |-> TRUE, genres |-> <<>>]
PopArtist == [has_id |-> TRUE, genres |-> << <<"P", "o", "p">> >>]
RockArtist == [has_id |-> TRUE, genres |-> << <<"A", "l", "t">>, <<"R", "o", "c", "k">> >>]
NoIdArtist == [has_id |-> FALSE, genres |-> <<>>]

\* a full album record carrying popularity p (<<>>: without the key)
Full(p) == << [popularity |-> p] >>

CatalogAlbum(id, release_date, popularity, full, artists) ==
    [id |-> id, release_date |-> release_date, popularity |-> popularity,
     full |-> full, artists |-> artists]

\* The albums the catalog sends: two of one id, one without id; dated within
\* the window, on its first day, to the month, to the year, last year, and on
\* no day of the calendar; with and without popularity; one whose detail
\* request fails; with each kind of first artist, and with none
AlbumChoices ==
    { CatalogAlbum(<<1>>, <<2025, 3, 1>>, <<50>>, Full(<<50>>), <<RockArtist>>),
      CatalogAlbum(<<2>>, <<2025, 3, 5>>, <<50>>, Full(<<50>>), <<Untagged>>),
      CatalogAlbum(<<1>>, <<2025, 3, 1>>, <<80>>, Full(<<80>>), <<PopArtist>>),
      CatalogAlbum(<<3>>, <<2025, 1, 9>>, <<>>, Full(<<>>), <<RockArtist>>),
      CatalogAlbum(<<>>, <<2025, 3>>, <<20>>, Full(<<20>>), <<RockArtist>>),
      CatalogAlbum(<<4>>, <<2025>>, <<90>>, Full(<<90>>), <<RockArtist>>),
      CatalogAlbum(<<5>>, <<2025, 2, 30>>, <<90>>, Full(<<90>>), <<RockArtist>>),
      CatalogAlbum(<<6>>, <<2025, 3, 1>>, <<60>>, <<>>, <<NoIdArtist>>),
      CatalogAlbum(<<7>>, <<2025, 3, 8>>, <<70>>, Full(<<70>>), <<>>),
      CatalogAlbum(<<8>>, <<2024, 12, 25>>, <<70>>, Full(<<70>>), <<RockArtist>>) }

\* Lists of more than TopN albums that pass every stage of every operation
LongLists ==
    { [i \in 1..n |->
          CatalogAlbum(<<100 + i>>, <<2025, 3, 1>>, <<40 + 10 * (i % 3)>>,
                       Full(<<40 + 10 * (i % 3)>>), <<RockArtist>>)]
      : n \in (TopN + 1)..MaxLong }

AlbumLists == UNION {[1..k -> AlbumChoices] : k \in 0..MaxAlbums} \cup LongLists

\* what the genre searches of get_genre_releases bring, all searches together
SearchLists ==
    { <<>>,
      << CatalogAlbum(<<1>>, <<2025, 3, 1>>, <<80>>, Full(<<80>>), <<PopArtist>>) >>,
      << CatalogAlbum(<<2>>, <<2025, 3, 5>>, <<50>>, Full(<<50>>), <<Untagged>>),
         CatalogAlbum(<<9>>, <<2025, 3, 2>>, <<50>>, Full(<<55>>), <<RockArtist>>) >> }

\* datetime.now(): March 10, 2025, at midnight or later in the day
Nows == [date : {<<2025, 3, 10>>}, tod : {0, 1}]

FilterParams ==
    [genre_keywords : {KwRock, KwPopRock}, days : {DefaultDays},
     trust_source : BOOLEAN, min_popularity : {0, 60}]

GenreParams == [genre_keywords : {KwRock, KwPopRock}, min_popularity : {0, 60}]

\* roster: artists.json loads and lists artists for the category
ArtistParams == [roster : BOOLEAN, min_popularity : {0, 60}]

\* filter_by_genre_and_recency(albums, genre_keywords, days, trust_source,
\* min_popularity)
FilterByGenreAndRecency ==
    /\ fpc = "idle"
    /\ \E list \in AlbumLists, t \in Nows, p \in FilterParams :
        LET filtered == SelectSeq(list, LAMBDA a : KeptByFilter(a, t, p))
        IN  /\ albums' = list
            /\ now' = t
            /\ params' = p
            /\ passed' = filtered
            /\ returned' = Truncated(SortedByPopularity(filtered))
    /\ fpc' = "filter_by_genre_and_recency"
    /\ UNCHANGED <<more_albums, dedup_in, unique>>
    /\ UNCHANGED <<rvars, mvars, tvars>>

\* get_genre_releases(genre_keywords, min_popularity).  `list` is the response
\* to the new-releases request (<<>> also when the request fails) and `more`
\* the responses to the genre searches, one after the other.
GetGenreReleases ==
    /\ fpc = "idle"
    /\ \E list \in AlbumLists, more \in SearchLists, t \in Nows, p \in GenreParams :
        LET new_releases == Enriched(list)
            search_results == Enriched(more)
            all_releases == Deduplicated(new_releases \o search_results)
            filtered == SelectSeq(all_releases,
                                  LAMBDA a : KeptByGenreReleases(a, t, p))
        IN  /\ albums' = list
            /\ more_albums' = more
            /\ now' = t
            /\ params' = p
            /\ dedup_in' = new_releases \o search_results
            /\ unique' = all_releases
            /\ passed' = filtered
            /\ returned' = SortedByPopularity(filtered)
    /\ fpc' = "get_genre_releases"
    /\ UNCHANGED <<rvars, mvars, tvars>>

\* get_releases_from_artist_database(genre_category, min_popularity).  `list`
\* is the albums of the roster's artists, one artist after the other.
GetReleasesFromArtistDatabase ==
    /\ fpc = "idle"
    /\ \E list \in AlbumLists, t \in Nows, p \in ArtistParams :
        LET all_albums ==
                Enriched(SelectSeq(list, LAMBDA a : KeptByArtistDatabase(a, t)))
            filtered ==
                SelectSeq(all_albums, LAMBDA a : Popularity(a) >= p.min_popularity)
            unique_albums == Deduplicated(filtered)
            sorted == SortedByDateThenPopularity(unique_albums)
        IN  /\ albums' = list
            /\ now' = t
            /\ params' = p
            /\ IF ~p.roster
               THEN /\ fpc' = "get_releases_from_artist_database"
                    /\ dedup_in' = <<>> /\ unique' = <<>> /\ passed' = <<>>
                    /\ returned' = <<>>
               ELSE /\ dedup_in' = filtered
                    /\ unique' = unique_albums
                    /\ passed' = unique_albums
                    /\ IF PrintRaises(sorted)
                       THEN /\ fpc' = "raised"
                            /\ returned' = <<>>
                       ELSE /\ fpc' = "get_releases_from_artist_database"
                            /\ returned' = sorted
    /\ UNCHANGED more_albums
    /\ UNCHANGED <<rvars, mvars, tvars>>

IdleResolver ==
    /\ album = [name |-> <<>>, artists |-> <<>>, release_date |-> <<>>]
    /\ pc = "idle" /\ attempt_num = 0 /\ issued = <<>> /\ pending = 0
    /\ best_match = NoMatch /\ best_match_score = 0 /\ last = NoLast
    /\ exit = "none" /\ found_url = NoUrl /\ details = NoDetails

InitFilter == IdleResolver /\ IdleFilter /\ IdleMain /\ IdleText

NextFilter ==
    \/ FilterByGenreAndRecency
    \/ GetGenreReleases
    \/ GetReleasesFromArtistDatabase

SpecFilter == InitFilter /\ [][NextFilter]_vars

-----------------------------------------------------------------------------
(* Properties of the filter operations, checked under SpecFilter *)

Deduplicates == {"get_genre_releases", "get_releases_from_artist_database"}

Filters == {"filter_by_genre_and_recency"} \cup Deduplicates

\* the identifiers that occur in a list; an album whose id is missing or
\* empty has none
IdsOf(list) == {list[i].id : i \in 1..Len(list)} \ {<<>>}

\* C5: the deduplicated list has no two albums of one identifier, and every
\* identifier of the list deduplicated occurs in it exactly once; in
\* get_genre_releases that list is new_releases followed by search_results.
C5_Deduplication ==
    fpc \in Deduplicates =>
        /\ \A i, j \in 1..Len(unique) : unique[i].id = unique[j].id => i = j
        /\ \A id \in IdsOf(dedup_in) :
               Cardinality({i \in 1..Len(unique) : unique[i].id = id}) = 1
        /\ \A i \in 1..Len(unique) :
               unique[i].id # <<>> /\ unique[i] \in Range(dedup_in)
        /\ fpc = "get_genre_releases" =>
               /\ Len(dedup_in) <= Len(albums) + Len(more_albums)
               /\ IdsOf(dedup_in) =
                      {a.id : a \in {b \in Range(albums) \cup Range(more_albums) :
                                        b.full # <<>>}} \ {<<>>}

\* C5: an identifier of new_releases comes again in search_results, and the
\* deduplicated list is shorter than the two together
C5_Witness ==
    /\ fpc = "get_genre_releases"
    /\ \E i, j \in 1..Len(dedup_in) :
           /\ i <= Len(albums) /\ Len(albums) = 2 /\ Len(dedup_in) = 3 /\ j = 3
           /\ dedup_in[i].id = dedup_in[j].id
    /\ Len(unique) = 2

\* where in list the identifier id comes first
FirstSeen(list, id) ==
    CHOOSE i \in 1..Len(list) :
        list[i].id = id /\ \A j \in 1..(i - 1) : list[j].id # id

FetchedInOrder(list) ==
    LET fetched == SelectSeq(list, LAMBDA a : a.full # <<>>)
    IN  [k \in 1..Len(fetched) |->
            [id |-> fetched[k].id,
             release_date |-> fetched[k].release_date,
             popularity |-> IF fetched[k].full[1].popularity = <<>>
                            THEN <<0>> ELSE fetched[k].full[1].popularity,
             full |-> fetched[k].full,
             artists |-> fetched[k].artists]]

\* C18: what enrich_albums_with_popularity returns for new_releases and for
\* the search results of get_genre_releases is the albums whose detail request
\* succeeded, in input order, each with a popularity; an album whose request
\* failed is left out and the albums after it are still processed.
C18_EnrichSkipsFailures ==
    fpc = "get_genre_releases" =>
        /\ dedup_in = FetchedInOrder(albums) \o FetchedInOrder(more_albums)
        /\ \A i \in 1..Len(dedup_in) : dedup_in[i].popularity # <<>>

\* C18: the request for the first of two new releases fails, the second
\* release has a full record without popularity and comes out with 0
C18_Witness ==
    /\ fpc = "get_genre_releases"
    /\ Len(albums) = 2 /\ more_albums = <<>>
    /\ albums[1].full = <<>>
    /\ albums[2].full = Full(<<>>)
    /\ dedup_in = << [albums[2] EXCEPT !.popularity = <<0>>] >>

\* the parsed release date of a is not earlier than t minus days
NotEarlier(a, t, days) ==
    /\ DateParses(a.release_date)
    /\ LET day == AlbumDate(a.release_date)
           first == FullOrdinal(t.date) - days
       IN  day > first \/ (day = first /\ t.tod = 0)

\* the recency window of the operation that ran
WindowOf(op) == IF op = "filter_by_genre_and_recency" THEN params.days ELSE WindowDays

\* C6 as stated: every release a filter operation returns is dated within the
\* recency window and has a popularity of at least min_popularity.
C6_WindowAndPopularity ==
    fpc \in Filters =>
        \A i \in 1..Len(returned) :
            /\ NotEarlier(returned[i], now, WindowOf(fpc))
            /\ Popularity(returned[i]) >= params.min_popularity

\* C6, amended: that holds for get_genre_releases, for
\* get_releases_from_artist_database and for filter_by_genre_and_recency with
\* trust_source false; with trust_source true a returned release has a
\* popularity of at least min_popularity and a release date that parses and
\* lies in the current year, whatever the window.
C6_WindowUnlessTrusted ==
    fpc \in Filters =>
        \A i \in 1..Len(returned) :
            /\ Popularity(returned[i]) >= params.min_popularity
            /\ DateParses(returned[i].release_date)
            /\ IF fpc = "filter_by_genre_and_recency" /\ params.trust_source
               THEN returned[i].release_date[1] = now.date[1]
               ELSE NotEarlier(returned[i], now, WindowOf(fpc))

\* C6: with trust_source true a release of the current year from before the
\* window is returned
C6_Witness ==
    /\ fpc = "filter_by_genre_and_recency"
    /\ params.trust_source
    /\ \E i \in 1..Len(returned) :
           /\ ~NotEarlier(returned[i], now, params.days)
           /\ returned[i].release_date = <<2025>>

\* the albums of list that have popularity v, in their order
WithPopularity(list, v) == SelectSeq(list, LAMBDA a : Popularity(a) = v)

IsPrefix(a, b) == Len(a) <= Len(b) /\ a = SubSeq(b, 1, Len(a))

\* list is in order of popularity, highest first, and albums of one
\* popularity are in the order they have in `before`
ByPopularityStable(list, before) ==
    /\ \A i, j \in 1..Len(list) :
           i < j => Popularity(list[i]) >= Popularity(list[j])
    /\ \A v \in {Popularity(list[i]) : i \in 1..Len(list)} :
           IsPrefix(WithPopularity(list, v), WithPopularity(before, v))

\* C7 as stated: the list each filter operation returns is in order of
\* popularity, highest first, albums of equal popularity in the order they had
\* before the sort.
C7_ByPopularity ==
    fpc \in Filters => ByPopularityStable(returned, passed)

\* where the album of identifier id stands in list
PositionOf(id, list) == CHOOSE k \in 1..Len(list) : list[k].id = id

\* C7, amended: that holds for filter_by_genre_and_recency and for
\* get_genre_releases; get_releases_from_artist_database returns its list in
\* order of release-date string, latest first, albums of one date in order of
\* popularity, highest first, and albums equal in both in the order they had.
C7_ByPopularityOrDate ==
    /\ fpc \in {"filter_by_genre_and_recency", "get_genre_releases"} =>
           ByPopularityStable(returned, passed)
    /\ fpc = "get_releases_from_artist_database" =>
        /\ Len(returned) = Len(passed)
        /\ \A i, j \in 1..Len(returned) :
               i < j =>
                   LET a == returned[i]
                       b == returned[j]
                   IN  \/ DateStringLess(b.release_date, a.release_date)
                       \/ /\ a.release_date = b.release_date
                          /\ Popularity(a) > Popularity(b)
                       \/ /\ a.release_date = b.release_date
                          /\ Popularity(a) = Popularity(b)
                          /\ PositionOf(a.id, passed) < PositionOf(b.id, passed)

\* C7: get_releases_from_artist_database returns a later release of lower
\* popularity ahead of an earlier one of higher popularity
C7_Witness ==
    /\ fpc = "get_releases_from_artist_database"
    /\ Len(returned) = 2
    /\ Popularity(returned[1]) < Popularity(returned[2])
    /\ returned[1] = passed[2]

\* list holds the same albums as `before`, each as often
SameAlbums(list, before) ==
    /\ Len(list) = Len(before)
    /\ \A a \in Range(before) :
           Cardinality({i \in 1..Len(list) : list[i] = a})
               = Cardinality({i \in 1..Len(before) : before[i] = a})

\* C8 as stated: filter_by_genre_and_recency and get_genre_releases return
\* every release that passes the stages, however many pass.
C8_AllReturned ==
    fpc \in {"filter_by_genre_and_recency", "get_genre_releases"} =>
        SameAlbums(returned, passed)

\* C8, amended: get_genre_releases returns every release that passes the
\* stages; filter_by_genre_and_recency returns the 10 most popular of them
\* when more than 10 pass, and all of them otherwise.
C8_AllOrTopTen ==
    /\ fpc = "get_genre_releases" => SameAlbums(returned, passed)
    /\ fpc = "filter_by_genre_and_recency" =>
        /\ Len(passed) <= 10 => SameAlbums(returned, passed)
        /\ Len(passed) > 10 =>
            /\ Len(returned) = 10
            /\ \A a \in Range(passed) :
                   Cardinality({i \in 1..Len(returned) : returned[i] = a})
                       <= Cardinality({i \in 1..Len(passed) : passed[i] = a})
            /\ \A a \in Range(passed) :
                   a \notin Range(returned) =>
                       \A i \in 1..Len(returned) :
                           Popularity(returned[i]) >= Popularity(a)

\* C8: 11 releases pass in filter_by_genre_and_recency and 10 are returned
C8_Witness ==
    /\ fpc = "filter_by_genre_and_recency"
    /\ Len(passed) = 11
    /\ Len(returned) = 10

\* a comes to the genre stage of an untrusted source with a first artist whose
\* genres can be looked up
ReachesGenreStage(a, t, days, min_popularity) ==
    /\ NotEarlier(a, t, days)
    /\ Popularity(a) >= min_popularity
    /\ a.artists # <<>>
    /\ a.artists[1].has_id

\* a keyword of the operation is a substring of the joined lower-cased tags
KeywordInTags(op, a) ==
    LET tags == Lower(Join(a.artists[1].genres, <<" ">>))
        keywords == IF op = "get_genre_releases"
                    THEN KeywordsByComma(params.genre_keywords)
                    ELSE KeywordsBySpace(params.genre_keywords)
    IN  \E k \in keywords : IsSubstring(k, tags)

\* C9 as stated: of the releases that come to the genre stage, one whose first
\* artist has no genre tags is kept, and one whose first artist has tags is
\* kept if and only if a keyword is a substring of the joined lower-cased tags.
C9_GenreStage ==
    LET staged == IF fpc = "get_genre_releases" THEN unique ELSE albums
    IN  (\/ fpc = "get_genre_releases"
         \/ fpc = "filter_by_genre_and_recency" /\ ~params.trust_source) =>
            \A i \in 1..Len(staged) :
                ReachesGenreStage(staged[i], now, WindowOf(fpc),
                                  params.min_popularity) =>
                    (staged[i] \in Range(passed) <=>
                        \/ staged[i].artists[1].genres = <<>>
                        \/ KeywordInTags(fpc, staged[i]))

-----------------------------------------------------------------------------
(* main *)

\* Number of releases one category brings, and of news articles, at most
MaxReleases == 2
MaxNews == 2

\* generate_demo_data(), the dates left out
DemoData ==
    [hiphop |-> << [name |-> "Demo Hip Hop Album", artists |-> "Demo Artist",
                    spotify_url |-> "#", apple_music_url |-> "#"] >>,
     rock |-> << [name |-> "Demo Rock Album", artists |-> "Demo Rock Band",
                  spotify_url |-> "#", apple_music_url |-> "#"] >>,
     news |-> << [title |-> "Welcome to Your Music Updates Site!",
                  link |-> "#", source |-> "Demo"] >>]

NoData == [hiphop |-> <<>>, rock |-> <<>>, news |-> <<>>]

\* The albums of one category that the artists' listings bring within the
\* window (all_albums), all of one date and one popularity so that the sort
\* leaves them in place: a complete one, one whose detail request fails, and
\* ones lacking a field the code reads
FoundAlbum(name, has_id, fetched, artists, images, urls) ==
    [name |-> name, has_id |-> has_id, fetched |-> fetched, artists |-> artists,
     images |-> images, urls |-> urls]

FoundChoices ==
    { FoundAlbum("r1", TRUE, TRUE, <<"a">>, "one", TRUE),
      FoundAlbum("r2", TRUE, FALSE, <<"a">>, "one", TRUE),
      FoundAlbum("r3", TRUE, TRUE, <<"a">>, "none", TRUE),
      FoundAlbum("r4", TRUE, TRUE, <<"a">>, "absent", TRUE),
      FoundAlbum("r5", TRUE, TRUE, <<"a">>, "one", FALSE),
      FoundAlbum("r6", TRUE, TRUE, <<>>, "one", TRUE),
      FoundAlbum("r7", FALSE, TRUE, <<"a">>, "one", TRUE) }

FoundLists == UNION {[1..k -> FoundChoices] : k \in 0..MaxReleases}

\* enrich_albums_with_popularity raises: album['id'] of an album without id
EnrichRaises(list) == \E i \in 1..Len(list) : ~list[i].has_id

\* the albums whose detail request succeeded
FetchedOf(list) == SelectSeq(list, LAMBDA a : a.fetched)

\* the print after the sort raises: artists[0] of an album without artists
MostRecentRaises(list) == list # <<>> /\ list[1].artists = <<>>

\* get_album_details raises: album['images'] or album['external_urls'] of an
\* album without the key
DetailsRaise(a) == a.images = "absent" \/ ~a.urls

\* the record get_album_details returns
DetailsOf(a) ==
    [name |-> a.name, image |-> IF a.images = "one" THEN "i" ELSE "",
     apple_music_url |-> "u"]

\* lines 957-958 and 964-965 raise on the albums found
ReleasesRaise(found) ==
    \/ EnrichRaises(found)
    \/ MostRecentRaises(FetchedOf(found))
    \/ \E i \in 1..Len(FetchedOf(found)) : DetailsRaise(FetchedOf(found)[i])

\* the articles fetch_music_news returns
NewsLists == {[i \in 1..k |-> [title |-> "n", link |-> "l"]] : k \in 0..MaxNews}

\* `if token:` taken whatever the token
AnyToken(token) == TRUE

\* `if token:`
TokenPresent(token) == token # <<>>

\* get_spotify_token(): no request without both credentials; else the token
\* request, which fails or brings a token (an empty one at worst)
GetSpotifyToken ==
    /\ mpc = "start"
    /\ IF ~(creds.client_id /\ creds.client_secret)
       THEN UNCHANGED <<spotify_token, calls>>
       ELSE /\ calls' = calls \cup {"token"}
            /\ \/ UNCHANGED spotify_token
               \/ spotify_token' \in {<<>>, <<"t">>}
    /\ mpc' = "token"
    /\ UNCHANGED <<creds, data, written>>
    /\ UNCHANGED <<rvars, fvars, tvars>>

\* what follows the releases of a category in main
NextStep(at) == IF at = "hiphop" THEN "rock" ELSE "news"

\* get_releases_from_artist_database(category) and get_album_details of each
\* release it returns, for 'hiphop' and then for 'alternative'.  Without a
\* roster nothing is requested.  An exception of the enrichment, of the print
\* after the sort or of get_album_details is caught nowhere and ends main.
FetchReleases ==
    /\ mpc \in {"hiphop", "rock"}
    /\ \/ /\ mpc' = NextStep(mpc)
          /\ UNCHANGED <<calls, data>>
       \/ \E found \in FoundLists :
            /\ calls' = calls \cup {"catalog"}
                   \cup (IF found # <<>> THEN {"enrichment"} ELSE {})
                   \cup (IF ~EnrichRaises(found)
                            /\ ~MostRecentRaises(FetchedOf(found))
                            /\ FetchedOf(found) # <<>>
                         THEN {"secondary"} ELSE {})
            /\ IF ReleasesRaise(found)
               THEN mpc' = "aborted" /\ UNCHANGED data
               ELSE /\ data' = [data EXCEPT ![mpc] =
                            [i \in 1..Len(FetchedOf(found)) |->
                                DetailsOf(FetchedOf(found)[i])]]
                    /\ mpc' = NextStep(mpc)
    /\ UNCHANGED <<creds, spotify_token, written>>
    /\ UNCHANGED <<rvars, fvars, tvars>>

\* the `if token:` branch is entered
EnterPipeline ==
    /\ mpc = "token"
    /\ TokenPresent(spotify_token)
    /\ mpc' = "hiphop"
    /\ UNCHANGED <<creds, spotify_token, calls, data, written>>
    /\ UNCHANGED <<rvars, fvars, tvars>>

\* news_data = fetcher.fetch_music_news(), and data is put together
FetchNews ==
    /\ mpc = "news"
    /\ \E articles \in NewsLists : data' = [data EXCEPT !.news = articles]
    /\ calls' = calls \cup {"feed"}
    /\ mpc' = "write"
    /\ UNCHANGED <<creds, spotify_token, written>>
    /\ UNCHANGED <<rvars, fvars, tvars>>

\* the else branch: data = fetcher.generate_demo_data()
UseDemoData ==
    /\ mpc = "token"
    /\ ~TokenPresent(spotify_token)
    /\ data' = DemoData
    /\ mpc' = "write"
    /\ UNCHANGED <<creds, spotify_token, calls, written>>
    /\ UNCHANGED <<rvars, fvars, tvars>>

\* json.dump(data, f, indent=2)
WriteOutput ==
    /\ mpc = "write"
    /\ written' = data
    /\ mpc' = "done"
    /\ UNCHANGED <<creds, spotify_token, calls, data>>
    /\ UNCHANGED <<rvars, fvars, tvars>>

\* fetcher = MusicDataFetcher()
StartMain ==
    /\ mpc = "start"
    /\ creds \in [client_id : BOOLEAN, client_secret : BOOLEAN]
    /\ spotify_token = <<>>
    /\ calls = {}
    /\ data = NoData
    /\ written = <<>>

InitMain ==
    /\ IdleResolver
    /\ fpc = "idle" /\ now = <<>> /\ albums = <<>> /\ more_albums = <<>>
    /\ params = <<>> /\ dedup_in = <<>> /\ unique = <<>>
    /\ passed = <<>> /\ returned = <<>>
    /\ IdleText
    /\ StartMain

NextMain ==
    \/ GetSpotifyToken
    \/ EnterPipeline
    \/ FetchReleases
    \/ FetchNews
    \/ UseDemoData
    \/ WriteOutput

SpecMain == InitMain /\ [][NextMain]_vars

\* the calls main makes only with a token
PipelineCalls == {"catalog", "enrichment", "secondary", "feed"}

\* C10: as long as there is no token (no credentials, a failed token request,
\* an empty token), main has issued none of the catalog, enrichment,
\* secondary-catalog and feed calls, it is never in the pipeline, and what it
\* has written when it is done is the demo dataset.
C10_DemoWithoutToken ==
    spotify_token = <<>> =>
        /\ calls \cap PipelineCalls = {}
        /\ mpc \in {"start", "token", "write", "done"}
        /\ mpc \in {"write", "done"} => data = DemoData
        /\ mpc = "done" => written = DemoData
        /\ mpc # "done" => written = <<>>

\* C10: the credentials are set, the token request fails, and the demo
\* dataset is written
C10_Witness ==
    /\ mpc = "done"
    /\ creds.client_id /\ creds.client_secret
    /\ calls = {"token"}
    /\ spotify_token = <<>>
    /\ written = DemoData

\* C11 as stated: whatever fails and whatever records come back, main is never
\* ended by an exception, and what it has written when it is done holds the
\* hiphop, rock and news lists.
C11_MainCompletes ==
    /\ mpc # "aborted"
    /\ mpc = "done" => DOMAIN written = {"hiphop", "rock", "news"}

-----------------------------------------------------------------------------
(* normalize_string and strings_match on their own *)

\* Length of the strings handed to normalize_string, at most
MaxChars == 4

\* Number of words of the strings handed to strings_match, at most
MaxWords == 3

\* letters of both cases, a digit, the underscore, a hyphen, a special
\* character and two kinds of whitespace
TextAlphabet == {"A", "b", "1", "_", "-", "!", " ", "\t"}

CharStrings == UNION {[1..k -> TextAlphabet] : k \in 0..MaxChars}

Vocabulary == {<<"a">>, <<"b">>, <<"c">>}

\* titles of up to MaxWords words, and some that normalize_string changes
WordStrings ==
    {Join(ws, <<" ">>) : ws \in UNION {[1..k -> Vocabulary] : k \in 0..MaxWords}}
    \cup {<<"A", "-", "b">>, <<"a", "!">>, <<" ", "a", " ", " ", "b", " ">>,
          <<"!">>, <<"a", "b">>, <<"-", "!">>}

\* thresholds as fractions: a half, the default, and one
Thresholds ==
    {[num |-> 1, den |-> 2], [num |-> ThresholdNum, den |-> ThresholdDen],
     [num |-> 1, den |-> 1]}

\* normalize_string(text1), and normalize_string of what it returned
Normalize ==
    /\ tpc = "start"
    /\ norm' = normalize_string(text1)
    /\ renorm' = normalize_string(normalize_string(text1))
    /\ tpc' = "normalized"
    /\ UNCHANGED <<text1, text2, threshold, match12, match21, decided>>
    /\ UNCHANGED <<rvars, fvars, mvars>>

\* strings_match(text1, text2, threshold) and strings_match(text2, text1,
\* threshold), for a second string and a threshold
Match ==
    /\ tpc = "normalized"
    /\ text1 \in WordStrings
    /\ \E b \in WordStrings, t \in Thresholds :
        /\ text2' = b
        /\ threshold' = t
        /\ match12' = strings_match(text1, b, t.num, t.den)
        /\ match21' = strings_match(b, text1, t.num, t.den)
        /\ decided' = DecidedBy(text1, b)
    /\ tpc' = "matched"
    /\ UNCHANGED <<text1, norm, renorm>>
    /\ UNCHANGED <<rvars, fvars, mvars>>

InitText ==
    /\ IdleResolver
    /\ IdleFilter
    /\ IdleMain
    /\ tpc = "start"
    /\ text1 \in CharStrings \cup WordStrings
    /\ text2 = <<>> /\ threshold = <<>>
    /\ norm = <<>> /\ renorm = <<>> /\ match12 = FALSE /\ match21 = FALSE
    /\ decided = "none"

NextText ==
    \/ Normalize
    \/ Match

SpecText == InitText /\ [][NextText]_vars

\* C12: normalize_string is idempotent: normalizing what normalize_string
\* returned gives the same string again.
C12_Idempotent ==
    tpc \in {"normalized", "matched"} => renorm = norm

\* C12: a string that normalize_string changes in every step (case, hyphen,
\* special character, run of spaces) has been normalized twice
C12_Witness ==
    /\ tpc = "normalized"
    /\ text1 = <<"A", "-", "!", "b">>
    /\ norm = <<"a", " ", "b">>
    /\ renorm = <<"a", " ", "b">>

\* C13: strings_match is symmetric: with the two strings exchanged, and the
\* same threshold, it returns the same.
C13_Symmetric ==
    tpc = "matched" => match12 = match21

\* C13: 'a' against 'ab', which holds it inside a word, matches both ways
C13_Witness ==
    /\ tpc = "matched"
    /\ text1 = <<"a">>
    /\ text2 = <<"a", "b">>
    /\ match12 /\ match21

\* C14: strings_match returns true exactly when the normalized strings are
\* equal, or one is a substring of the other, or both have words and the words
\* in common are at least the threshold's share of the smaller word set; the
\* default threshold is 0.7.
C14_MatchRule ==
    /\ ThresholdNum * 10 = 7 * ThresholdDen
    /\ tpc = "matched" =>
        LET n1 == normalize_string(text1)
            n2 == normalize_string(text2)
            common == Cardinality(WordSet(n1) \cap WordSet(n2))
            least == Min(Cardinality(WordSet(n1)), Cardinality(WordSet(n2)))
        IN  match12 <=>
                \/ n1 = n2
                \/ IsSubstring(n1, n2)
                \/ IsSubstring(n2, n1)
                \/ /\ WordSet(n1) # {} /\ WordSet(n2) # {}
                   /\ common * threshold.den >= threshold.num * least

\* C14: 'a b' and 'a c' have one word of two in common: a match at the
\* threshold of a half, reached exactly
C14_Witness ==
    /\ tpc = "matched"
    /\ text1 = <<"a", " ", "b">>
    /\ text2 = <<"a", " ", "c">>
    /\ threshold = [num |-> 1, den |-> 2]
    /\ match12

\* C21: when one of the two strings normalizes to the empty string,
\* strings_match returns true, for every other string and every threshold,
\* and it returns at the containment step or before; the step that finds a
\* word set empty is never the one at which strings_match returns.
C21_EmptyAlwaysMatches ==
    tpc = "matched" =>
        /\ (normalize_string(text1) = <<>> \/ normalize_string(text2) = <<>>) =>
               /\ match12 /\ match21
               /\ decided \in {"equal", "contained"}
        /\ decided # "empty words"
        /\ decided \in {"equal", "contained"} => match12

\* C21: '-!' normalizes to the empty string and is matched with 'a b c' at
\* the threshold of one, by containment
C21_Witness ==
    /\ tpc = "matched"
    /\ text1 = <<"-", "!">>
    /\ norm = <<>>
    /\ text2 = <<"a", " ", "b", " ", "c">>
    /\ threshold = [num |-> 1, den |-> 1]
    /\ match12 /\ match21
    /\ decided = "contained"

=============================================================================
